---- MODULE Spec2Model ----
(***************************************************************************)
(* Model of src/app.py: the search page of the Horseshoe Crab Research     *)
(* Repository (perform_search, sorting, CSV export, pagination,            *)
(* highlight_text and the session state that drives them).                 *)
(*                                                                         *)
(* A Python str is modelled as a sequence of one-character strings.        *)
(***************************************************************************)
EXTENDS Integers, Sequences, FiniteSets, TLC

VARIABLES
    data,                 \* the loaded DataFrame: a sequence of records
    search_query,         \* st.session_state.search_query
    search_bar,           \* value of the text_input widget "search_bar"
    current_page,         \* st.session_state.current_page
    year_range,           \* sidebar slider: <<lo, hi>>
    selected_pub_types,   \* sidebar multiselect
    selected_countries,   \* sidebar multiselect
    sort_option,          \* selectbox "Sort results by"
    results,              \* the result list of the last script run (after sort)
    view,                 \* what the last script run rendered
    paginated_results,    \* the page slice the last script run displayed
    total_pages,          \* total_pages of the last script run
    csv,                  \* payload of the download button of the last run
    text,                 \* highlight_text: argument text
    marked,               \* highlight_text: outcome
    rendered_query,       \* the query the page on screen was rendered for
    pc                    \* position of the script / of the function under check

vars == <<data, search_query, search_bar, current_page, year_range,
          selected_pub_types, selected_countries, sort_option, results, view,
          paginated_results, total_pages, csv, text, marked,
          rendered_query, pc>>

-----------------------------------------------------------------------------
(* Bounds of the model *)

MaxTextLen == 3      \* longest text handed to highlight_text
MaxQueryLen == 2     \* longest query typed
MaxRecords == 2      \* most rows of a data set drawn from the catalogue
UiRecords == 12      \* rows of the data set of the session
PageRecords == 27    \* most rows of a data set that is paginated
MaxPage == 4         \* highest page number when pagination is checked alone

(* Program constant *)

results_per_page == 10

-----------------------------------------------------------------------------
(* Strings *)

Letters == {"a", "A"}
Specials == {".", "*", "("}
Backslash == "\\"
MarkOpen == "<mark>"
MarkClose == "</mark>"

RECURSIVE StringsUpTo(_, _)
StringsUpTo(chars, n) ==
    IF n = 0 THEN {<< >>}
    ELSE LET shorter == StringsUpTo(chars, n - 1)
         IN shorter \cup {Append(s, c) : s \in shorter, c \in chars}

\* str.lower() on one character
LowerChar(c) == IF c = "A" THEN "a" ELSE c

\* str.lower()
Lower(s) == [i \in 1..Len(s) |-> LowerChar(s[i])]

-----------------------------------------------------------------------------
(* Python's re module, for the patterns this alphabet can spell:           *)
(* literals, '.', a '*' repeat, a backslash escape, and '(' which, with no *)
(* ')' in the alphabet, is always an unterminated group.                   *)

ReError == "re.error"

\* re.escape(query): a backslash before every special character
RECURSIVE ReEscape(_)
ReEscape(q) ==
    IF q = << >> THEN << >>
    ELSE (IF Head(q) \in Specials THEN <<Backslash, Head(q)>> ELSE <<Head(q)>>)
         \o ReEscape(Tail(q))

\* re.compile(p): the sequence of atoms of p, or ReError
\* an atom: [any |-> BOOLEAN, ch |-> character, star |-> BOOLEAN]
RECURSIVE ReCompileFrom(_, _)
ReCompileFrom(p, k) ==
    IF k > Len(p) THEN << >>
    ELSE LET c == p[k]
             escaped == c = Backslash
             chPos == IF escaped THEN k + 1 ELSE k
             after == chPos + 1
             starred == after <= Len(p) /\ p[after] = "*"
             next == IF starred THEN after + 1 ELSE after
         IN IF escaped /\ k = Len(p) THEN ReError           \* bad escape (end of pattern)
            ELSE IF ~escaped /\ c = "(" THEN ReError         \* missing ), unterminated subpattern
            ELSE IF ~escaped /\ c = "*" THEN ReError         \* nothing to repeat
            ELSE IF starred /\ next <= Len(p) /\ p[next] = "*" THEN ReError  \* multiple repeat
            ELSE LET rest == ReCompileFrom(p, next)
                 IN IF rest = ReError THEN ReError
                    ELSE <<[any |-> (~escaped /\ c = "."), ch |-> p[chPos], star |-> starred]>>
                         \o rest

ReCompile(p) == ReCompileFrom(p, 1)

AtomMatches(atom, c, ignorecase) ==
    \/ atom.any
    \/ atom.ch = c
    \/ ignorecase /\ LowerChar(atom.ch) = LowerChar(c)

\* the end positions (exclusive) of the matches of atoms k.. that start at s[j]
RECURSIVE ReMatchEnds(_, _, _, _, _)
ReMatchEnds(atoms, k, s, j, ignorecase) ==
    IF k > Len(atoms) THEN {j}
    ELSE LET atom == atoms[k]
             here == j <= Len(s) /\ AtomMatches(atom, s[j], ignorecase)
         IN IF atom.star
            THEN ReMatchEnds(atoms, k + 1, s, j, ignorecase)
                 \cup (IF here THEN ReMatchEnds(atoms, k, s, j + 1, ignorecase) ELSE {})
            ELSE IF here THEN ReMatchEnds(atoms, k + 1, s, j + 1, ignorecase) ELSE {}

\* pattern.search(s) is not None
ReSearch(atoms, s, ignorecase) ==
    \E j \in 1..(Len(s) + 1) : ReMatchEnds(atoms, 1, s, j, ignorecase) # {}

Max(S) == CHOOSE x \in S : \A y \in S : y <= x

\* re.sub(f'({body})', r'<mark>\1</mark>', s): leftmost matches, scanned left to
\* right without overlap; group 1 is the whole match. (The patterns highlight_text
\* builds have no repeat, so a match has one possible end; Max is the greedy one.)
RECURSIVE ReSubMark(_, _, _, _)
ReSubMark(atoms, s, j, ignorecase) ==
    IF j > Len(s) THEN << >>
    ELSE LET ends == ReMatchEnds(atoms, 1, s, j, ignorecase)
         IN IF ends # {} /\ Max(ends) > j
            THEN <<MarkOpen>> \o SubSeq(s, j, Max(ends) - 1) \o <<MarkClose>>
                 \o ReSubMark(atoms, s, Max(ends), ignorecase)
            ELSE <<s[j]>> \o ReSubMark(atoms, s, j + 1, ignorecase)

-----------------------------------------------------------------------------
(* highlight_text *)

\* the outcome of a call: a returned value, or an exception that escaped
Returned(v) == [raised |-> FALSE, value |-> v]
Raised == [raised |-> TRUE, value |-> << >>]

\* re.sub(f'({body})', r'<mark>\1</mark>', s, flags): raises re.error when the
\* pattern does not compile
re_sub(body, s, ignorecase) ==
    LET atoms == ReCompile(body)
    IN IF atoms = ReError THEN Raised ELSE Returned(ReSubMark(atoms, s, 1, ignorecase))

\* a variant that hands the raw query to re.sub (no re.escape)
highlight_text_unescaped(txt, query) ==
    IF query # << >> /\ txt # << >>
    THEN LET attempt == re_sub(query, txt, TRUE)
         IN IF attempt.raised THEN Returned(txt) ELSE attempt
    ELSE Returned(txt)

\* a variant without flags=re.IGNORECASE
highlight_text_cased(txt, query) ==
    IF query # << >> /\ txt # << >>
    THEN LET attempt == re_sub(ReEscape(query), txt, FALSE)
         IN IF attempt.raised THEN Returned(txt) ELSE attempt
    ELSE Returned(txt)

highlight_text(txt, query) ==
    IF query # << >> /\ txt # << >>
    THEN LET attempt == re_sub(ReEscape(query), txt, TRUE)      \* try:
         IN IF attempt.raised THEN Returned(txt)                 \* except re.error: return text
            ELSE attempt
    ELSE Returned(txt)

-----------------------------------------------------------------------------
(* Records: one row of research_data.csv as load_data returns it.  idx is   *)
(* the row's DataFrame index label, which filtering and sorting keep.       *)

Rec(i, title, authors, keywords, abstract, year, ptype, country) ==
    [idx |-> i, Title |-> title, Authors |-> authors, Keywords |-> keywords,
     Abstract |-> abstract, PublicationYear |-> year, PublicationType |-> ptype,
     SourceCountry |-> country]

Min(S) == CHOOSE x \in S : \A y \in S : x <= y

YearsOf(d) == {d[i].PublicationYear : i \in 1..Len(d)}

\* sidebar: bounds of the year slider
min_year(d) == IF Min(YearsOf(d)) > 0 THEN Min(YearsOf(d)) ELSE 1900
max_year(d) == IF Max(YearsOf(d)) > 0 THEN Max(YearsOf(d)) ELSE 2024

\* sidebar: options of the publication type multiselect (missing types left out)
pub_types(d) == {d[i].PublicationType : i \in 1..Len(d)} \ {""}

\* sidebar: options of the country multiselect (missing countries left out)
countries(d) == {d[i].SourceCountry : i \in 1..Len(d)} \ {""}

\* the values the slider can return
SliderValues(d) ==
    {<<lo, hi>> \in (min_year(d)..max_year(d)) \X (min_year(d)..max_year(d)) : lo <= hi}

-----------------------------------------------------------------------------
(* perform_search *)

\* the sidebar mask of perform_search
PassesFilters(r, yr, types, ctries) ==
    /\ yr[1] <= r.PublicationYear /\ r.PublicationYear <= yr[2]
    /\ r.PublicationType \in types
    /\ r.SourceCountry \in ctries

\* Series.str.lower().str.contains(query, na=False) on the four text columns;
\* str.contains compiles query as a regular expression (regex=True is the default)
RowMatches(r, atoms) ==
    \/ ReSearch(atoms, Lower(r.Title), FALSE)
    \/ ReSearch(atoms, Lower(r.Authors), FALSE)
    \/ ReSearch(atoms, Lower(r.Keywords), FALSE)
    \/ ReSearch(atoms, Lower(r.Abstract), FALSE)

\* a variant that returns the filtered data when there is no query
perform_search_show_all(d, stored, yr, types, ctries) ==
    LET query == Lower(stored)
        filtered_data == SelectSeq(d, LAMBDA r : PassesFilters(r, yr, types, ctries))
    IN IF query # << >>
       THEN LET atoms == ReCompile(query)
            IN IF atoms = ReError THEN Raised
               ELSE Returned(SelectSeq(filtered_data, LAMBDA r : RowMatches(r, atoms)))
       ELSE Returned(filtered_data)

perform_search(d, stored, yr, types, ctries) ==
    LET query == Lower(stored)
        filtered_data == SelectSeq(d, LAMBDA r : PassesFilters(r, yr, types, ctries))
    IN IF query # << >>
       THEN LET atoms == ReCompile(query)
            IN IF atoms = ReError
               THEN Raised                          \* re.error leaves perform_search
               ELSE Returned(SelectSeq(filtered_data, LAMBDA r : RowMatches(r, atoms)))
       ELSE Returned(<< >>)                         \* pd.DataFrame()

-----------------------------------------------------------------------------
(* Sorting: DataFrame.sort_values(by) with the default kind='quicksort',   *)
(* which orders the rows by the key and promises nothing about the order   *)
(* of rows with equal keys.                                                *)

\* code points of the characters of the model
Ord(c) ==
    CASE c = "\"" -> 34 [] c = "(" -> 40 [] c = "*" -> 42 [] c = "," -> 44
      [] c = "." -> 46 [] c = "A" -> 65 [] c = "a" -> 97 [] OTHER -> 0

\* s <= t for Python str
RECURSIVE StrLeq(_, _)
StrLeq(s, t) ==
    IF s = << >> THEN TRUE
    ELSE IF t = << >> THEN FALSE
    ELSE IF Head(s) = Head(t) THEN StrLeq(Tail(s), Tail(t))
    ELSE Ord(Head(s)) < Ord(Head(t))

\* r may come before q in the sorted frame
KeyLeq(r, q, option) ==
    CASE option = "Year (Newest First)" -> r.PublicationYear >= q.PublicationYear
      [] option = "Year (Oldest First)" -> r.PublicationYear <= q.PublicationYear
      [] option = "Title (A-Z)" -> StrLeq(r.Title, q.Title)
      [] OTHER -> TRUE

\* every order of the rows S in which the keys are sorted
RECURSIVE KeyOrders(_, _)
KeyOrders(S, option) ==
    IF S = {} THEN {<< >>}
    ELSE UNION {{<<r>> \o rest : rest \in KeyOrders(S \ {r}, option)} :
                   r \in {x \in S : \A y \in S : KeyLeq(x, y, option)}}

SeqRange(s) == {s[i] : i \in 1..Len(s)}

SortOptions == {"Relevance", "Year (Newest First)", "Year (Oldest First)", "Title (A-Z)"}

\* the frames the three sort_values lines can leave for the chosen option
sort_values(found, option) ==
    IF option = "Relevance" THEN {found} ELSE KeyOrders(SeqRange(found), option)

-----------------------------------------------------------------------------
(* CSV: results.to_csv(index=False), and load_data reading such a file     *)

Columns == <<"Title", "Author/s", "Keywords", "Abstract", "Publication Year",
             "Publication Type", "Source Country">>
Digit == <<"0", "1", "2", "3", "4", "5", "6", "7", "8", "9">>

\* str(n) for n >= 0
RECURSIVE IntToStr(_)
IntToStr(n) ==
    IF n < 10 THEN <<Digit[n + 1]>> ELSE Append(IntToStr(n \div 10), Digit[(n % 10) + 1])

DigitValue(c) == (CHOOSE k \in 1..10 : Digit[k] = c) - 1
IsDigit(c) == \E k \in 1..10 : Digit[k] = c

RECURSIVE StrToInt(_)
StrToInt(s) ==
    IF s = << >> THEN 0 ELSE 10 * StrToInt(SubSeq(s, 1, Len(s) - 1)) + DigitValue(s[Len(s)])

Quote == "\""
Comma == ","

RECURSIVE DoubleQuotes(_)
DoubleQuotes(s) ==
    IF s = << >> THEN << >>
    ELSE (IF Head(s) = Quote THEN <<Quote, Quote>> ELSE <<Head(s)>>) \o DoubleQuotes(Tail(s))

\* csv.QUOTE_MINIMAL: a cell is quoted when it holds a delimiter or a quote
WriteCell(s) ==
    IF \E i \in 1..Len(s) : s[i] \in {Quote, Comma}
    THEN <<Quote>> \o DoubleQuotes(s) \o <<Quote>>
    ELSE s

RECURSIVE JoinCells(_)
JoinCells(cells) ==
    IF Len(cells) = 0 THEN << >>
    ELSE IF Len(cells) = 1 THEN cells[1]
    ELSE cells[1] \o <<Comma>> \o JoinCells(Tail(cells))

\* a type or country label is written as one token; a missing one as nothing
Label(w) == IF w = "" THEN << >> ELSE <<w>>

\* the cells of a row in column order (the index is not written)
RowCells(r) ==
    <<r.Title, r.Authors, r.Keywords, r.Abstract, IntToStr(r.PublicationYear),
      Label(r.PublicationType), Label(r.SourceCountry)>>

CsvLine(cells) == JoinCells([i \in 1..Len(cells) |-> WriteCell(cells[i])])

HeaderLine == CsvLine([i \in 1..Len(Columns) |-> <<Columns[i]>>])

\* a variant that writes the rows of the visible page only
to_csv_first_page(frame) ==
    <<HeaderLine>> \o [i \in 1..(IF Len(frame) < results_per_page THEN Len(frame)
                                     ELSE results_per_page) |->
                          CsvLine(RowCells(frame[i]))]

\* results.to_csv(index=False): the header line, then one line per row
to_csv(frame) ==
    <<HeaderLine>> \o [i \in 1..Len(frame) |-> CsvLine(RowCells(frame[i]))]

\* the cells of one line of a CSV file
RECURSIVE SplitLine(_, _, _, _, _)
SplitLine(line, k, cell, quoted, cells) ==
    IF k > Len(line) THEN Append(cells, cell)
    ELSE LET c == line[k]
         IN IF quoted
            THEN IF c = Quote
                 THEN IF k < Len(line) /\ line[k + 1] = Quote
                      THEN SplitLine(line, k + 2, Append(cell, Quote), TRUE, cells)
                      ELSE SplitLine(line, k + 1, cell, FALSE, cells)
                 ELSE SplitLine(line, k + 1, Append(cell, c), TRUE, cells)
            ELSE IF c = Comma THEN SplitLine(line, k + 1, << >>, FALSE, Append(cells, cell))
            ELSE IF c = Quote /\ cell = << >> THEN SplitLine(line, k + 1, cell, TRUE, cells)
            ELSE SplitLine(line, k + 1, Append(cell, c), FALSE, cells)

NaN == "NaN"

\* pd.read_csv: an empty cell is read as NaN
ReadCell(cell) == IF cell = << >> THEN NaN ELSE cell

\* df[col].fillna('')
FillNaText(v) == IF v = NaN THEN << >> ELSE v

\* pd.to_numeric(errors='coerce').fillna(0).astype(int)
ToYear(v) ==
    IF v # NaN /\ \A i \in 1..Len(v) : IsDigit(v[i]) THEN StrToInt(v) ELSE 0

\* a label column after fillna('')
ToLabel(v) == IF v = NaN THEN "" ELSE v[1]

\* the column of a header name
ColumnOf(header, name) == CHOOSE j \in 1..Len(header) : header[j] = <<name>>

\* load_data on the lines of a CSV file: rows are indexed in file order
load_data(lines) ==
    LET header == SplitLine(lines[1], 1, << >>, FALSE, << >>)
        cellOf(i, name) ==
            ReadCell(SplitLine(lines[i + 1], 1, << >>, FALSE, << >>)[ColumnOf(header, name)])
    IN [i \in 1..(Len(lines) - 1) |->
           Rec(i,
               FillNaText(cellOf(i, "Title")),
               FillNaText(cellOf(i, "Author/s")),
               FillNaText(cellOf(i, "Keywords")),
               FillNaText(cellOf(i, "Abstract")),
               ToYear(cellOf(i, "Publication Year")),
               ToLabel(cellOf(i, "Publication Type")),
               ToLabel(cellOf(i, "Source Country")))]

-----------------------------------------------------------------------------
(* Pagination *)

\* frame.iloc[start:end] for 0 <= start <= end: clipped at the end of the frame
ILoc(frame, start, end) ==
    SubSeq(frame,
           (IF start < Len(frame) THEN start ELSE Len(frame)) + 1,
           IF end < Len(frame) THEN end ELSE Len(frame))

PageSlice(frame, page) ==
    LET start_index == (page - 1) * results_per_page
        end_index == start_index + results_per_page
    IN ILoc(frame, start_index, end_index)

\* a variant that counts one page too many when the pages are all full
TotalPages_extra_page(n) == n \div results_per_page + 1

\* (len(results) - 1) // results_per_page + 1; \div floors like Python's //
TotalPages(n) == (n - 1) \div results_per_page + 1

-----------------------------------------------------------------------------
(* One run of show_results_page from the call of perform_search to the end *)
(* of the script, for the widget values q, page, yr, types, ctries, option *)

\* a variant of the query-change branch that keeps the current page
NextPageOnNewQuery_keep(page) == page

\* the page the query-change branch stores
NextPageOnNewQuery(page) == 1

RenderPage(q, page, yr, types, ctries, option) ==
    LET found == perform_search(data, q, yr, types, ctries)
    IN /\ rendered_query' = q
       /\ IF found.raised
          THEN \* the exception ends the run; the widget states are kept
               /\ view' = "error"
               /\ results' = << >>
               /\ csv' = << >>
               /\ paginated_results' = << >>
               /\ total_pages' = 0
               /\ sort_option' = option
          ELSE IF found.value # << >>
          THEN /\ view' = "results"
               /\ results' \in sort_values(found.value, option)
               /\ csv' = to_csv(results')
               /\ paginated_results' = PageSlice(results', page)
               /\ total_pages' = TotalPages(Len(results'))
               /\ sort_option' = option
          ELSE \* no selectbox, button or page control is created in this run, and
               \* the state of a widget that a finished run did not create is dropped
               /\ view' = IF q # << >> THEN "warning" ELSE "info"
               /\ results' = << >>
               /\ csv' = << >>
               /\ paginated_results' = << >>
               /\ total_pages' = 0
               /\ sort_option' = "Relevance"

-----------------------------------------------------------------------------
(* The session: what the user can do on the search page, each followed by  *)
(* the script run it triggers                                              *)

\* the user edits the search bar: the run stores the query, resets the page and
\* calls st.rerun() before anything below the search bar is rendered
TypeQuery(q) ==
    /\ pc = "idle"
    /\ q # search_bar
    /\ search_bar' = q
    /\ search_query' = q
    /\ current_page' = NextPageOnNewQuery(current_page)
    /\ pc' = "rerun"
    /\ UNCHANGED <<data, year_range, selected_pub_types, selected_countries,
                   sort_option, results, view, paginated_results, total_pages, csv,
                   rendered_query>>
    /\ UNCHANGED <<text, marked>>

\* the run that st.rerun() started: the search bar and the stored query agree
Rerun ==
    /\ pc = "rerun"
    /\ search_bar = search_query
    /\ RenderPage(search_query, current_page, year_range, selected_pub_types,
                  selected_countries, sort_option)
    /\ pc' = "idle"
    /\ UNCHANGED <<data, search_query, search_bar, current_page, year_range,
                   selected_pub_types, selected_countries>>
    /\ UNCHANGED <<text, marked>>

\* the user moves the year slider
SetYearRange(yr) ==
    /\ pc = "idle"
    /\ yr # year_range
    /\ year_range' = yr
    /\ RenderPage(search_query, current_page, yr, selected_pub_types,
                  selected_countries, sort_option)
    /\ UNCHANGED <<data, search_query, search_bar, current_page,
                   selected_pub_types, selected_countries, pc>>
    /\ UNCHANGED <<text, marked>>

\* the user changes the publication type multiselect
SetPubTypes(types) ==
    /\ pc = "idle"
    /\ types # selected_pub_types
    /\ selected_pub_types' = types
    /\ RenderPage(search_query, current_page, year_range, types,
                  selected_countries, sort_option)
    /\ UNCHANGED <<data, search_query, search_bar, current_page, year_range,
                   selected_countries, pc>>
    /\ UNCHANGED <<text, marked>>

\* the user changes the country multiselect
SetCountries(ctries) ==
    /\ pc = "idle"
    /\ ctries # selected_countries
    /\ selected_countries' = ctries
    /\ RenderPage(search_query, current_page, year_range, selected_pub_types,
                  ctries, sort_option)
    /\ UNCHANGED <<data, search_query, search_bar, current_page, year_range,
                   selected_pub_types, pc>>
    /\ UNCHANGED <<text, marked>>

\* the user picks a sort order; the selectbox exists only beside results
SelectSort(option) ==
    /\ pc = "idle"
    /\ view = "results"
    /\ option # sort_option
    /\ RenderPage(search_query, current_page, year_range, selected_pub_types,
                  selected_countries, option)
    /\ UNCHANGED <<data, search_query, search_bar, current_page, year_range,
                   selected_pub_types, selected_countries, pc>>
    /\ UNCHANGED <<text, marked>>

\* the user clicks "Next": the run renders as before, then the button's branch
\* adds one to the page and calls st.rerun()
ClickNext ==
    /\ pc = "idle"
    /\ view = "results"
    /\ total_pages > 1
    /\ current_page < total_pages
    /\ current_page' = current_page + 1
    /\ pc' = "rerun"
    /\ UNCHANGED <<data, search_query, search_bar, year_range, selected_pub_types,
                   selected_countries, sort_option, results, view,
                   paginated_results, total_pages, csv, rendered_query>>
    /\ UNCHANGED <<text, marked>>

\* the user clicks "Previous"
ClickPrevious ==
    /\ pc = "idle"
    /\ view = "results"
    /\ total_pages > 1
    /\ current_page > 1
    /\ current_page' = current_page - 1
    /\ pc' = "rerun"
    /\ UNCHANGED <<data, search_query, search_bar, year_range, selected_pub_types,
                   selected_countries, sort_option, results, view,
                   paginated_results, total_pages, csv, rendered_query>>
    /\ UNCHANGED <<text, marked>>

-----------------------------------------------------------------------------
(* Data sets *)

RECURSIVE Ascending(_)
Ascending(S) == IF S = {} THEN << >> ELSE <<Min(S)>> \o Ascending(S \ {Min(S)})

\* the rows of cat at the positions S, in file order, indexed anew
Rows(cat, S) ==
    LET pos == Ascending(S)
    IN [i \in 1..Len(pos) |-> [cat[pos[i]] EXCEPT !.idx = i]]

\* the data sets of at most n rows taken from cat
DataSets(cat, n) ==
    {Rows(cat, S) : S \in {T \in SUBSET (1..Len(cat)) : 1 <= Cardinality(T) /\ Cardinality(T) <= n}}

\* rows with text in each searched column, with special characters, with a
\* missing type and a missing country
Catalogue ==
    <<Rec(1, <<"a", "A">>, << >>, << >>, << >>, 2000, "Article", "India"),
      Rec(2, << >>, <<".">>, << >>, << >>, 2001, "Article", "India"),
      Rec(3, << >>, << >>, <<"a", ".">>, << >>, 2000, "Review", "India"),
      Rec(4, << >>, << >>, << >>, <<"A">>, 2001, "Review", "Japan"),
      Rec(5, << >>, << >>, << >>, << >>, 2000, "Article", "India"),
      Rec(6, <<".", "a">>, << >>, << >>, << >>, 2001, "", "India"),
      Rec(7, <<"a">>, << >>, << >>, << >>, 2000, "Article", ""),
      Rec(8, <<"A", ".">>, << >>, << >>, <<"a">>, 2001, "Review", "Japan")>>

UiTitles ==
    <<<<"a">>, <<"A">>, <<"a", "a">>, <<"a", "A">>, <<"A", "a">>, <<"a", ".">>,
      <<".", "a">>, <<"a", Comma>>, <<"a", Quote>>, <<"(", "a">>, <<"a", "*">>>>

\* row i of the session's data set: titles repeat after the eleventh row, rows
\* 1 and 2 share a year, row 3 has no country
UiRow(i) ==
    Rec(i,
        UiTitles[((i - 1) % Len(UiTitles)) + 1],
        IF i % 5 = 0 THEN <<Quote, "A", Comma>> ELSE << >>,
        << >>,
        IF i % 4 = 0 THEN <<"a">> ELSE << >>,
        IF i = 2 THEN 2001 ELSE 2000 + i,
        IF i % 2 = 0 THEN "Review" ELSE "Article",
        IF i = 3 THEN "" ELSE "India")

UiData(n) == [i \in 1..n |-> UiRow(i)]

UiQueries == {<< >>, <<"a">>, <<"A", ".">>, <<"(">>}

\* slider values the session tries: ranges between the ends of the slider
UiSliderValues(d) ==
    {v \in SliderValues(d) : v[1] \in {min_year(d), max_year(d)}
                             /\ v[2] \in {min_year(d), max_year(d)}}

-----------------------------------------------------------------------------
(* Spec: the session of the search page *)

Init ==
    /\ data = UiData(UiRecords)
    /\ search_query = << >>
    /\ search_bar = << >>
    /\ current_page = 1
    /\ year_range = <<min_year(data), max_year(data)>>
    /\ selected_pub_types = pub_types(data)
    /\ selected_countries = countries(data)
    /\ sort_option = "Relevance"
    /\ results = << >>
    /\ view = "info"
    /\ paginated_results = << >>
    /\ total_pages = 0
    /\ csv = << >>
    /\ rendered_query = << >>
    /\ text = << >>
    /\ marked = Returned(<< >>)
    /\ pc = "idle"

Next ==
    \/ \E q \in UiQueries : TypeQuery(q)
    \/ Rerun
    \/ \E yr \in UiSliderValues(data) : SetYearRange(yr)
    \/ \E types \in SUBSET pub_types(data) : SetPubTypes(types)
    \/ \E ctries \in SUBSET countries(data) : SetCountries(ctries)
    \/ \E option \in SortOptions : SelectSort(option)
    \/ ClickNext
    \/ ClickPrevious

Spec == Init /\ [][Next]_vars

-----------------------------------------------------------------------------
(* SpecSearch: one run of the page for every data set of the catalogue,    *)
(* every query and every setting of the sidebar                            *)

Chars == Letters \cup Specials
Queries == StringsUpTo(Chars, MaxQueryLen)

NothingRendered ==
    /\ results = << >>
    /\ view = "none"
    /\ paginated_results = << >>
    /\ total_pages = 0
    /\ csv = << >>
    /\ rendered_query = << >>

HighlightIdle ==
    /\ text = << >>
    /\ marked = Returned(<< >>)

SearchInit ==
    /\ data \in DataSets(Catalogue, MaxRecords)
    /\ search_query \in Queries
    /\ search_bar = search_query
    /\ current_page = 1
    /\ year_range \in SliderValues(data)
    /\ selected_pub_types \in SUBSET pub_types(data)
    /\ selected_countries \in SUBSET countries(data)
    /\ sort_option = "Relevance"
    /\ NothingRendered
    /\ HighlightIdle
    /\ pc = "rerun"

SearchNext == Rerun

SpecSearch == SearchInit /\ [][SearchNext]_vars

-----------------------------------------------------------------------------
(* SpecSort: one run of the page for every data set of the catalogue and   *)
(* every sort order, with a query that several rows match                  *)

SortInit ==
    /\ data \in DataSets(Catalogue, MaxRecords + 1)
    /\ search_query = <<"a">>
    /\ search_bar = search_query
    /\ current_page = 1
    /\ year_range = <<min_year(data), max_year(data)>>
    /\ selected_pub_types = pub_types(data)
    /\ selected_countries = countries(data)
    /\ sort_option \in SortOptions
    /\ NothingRendered
    /\ HighlightIdle
    /\ pc = "rerun"

SortNext == Rerun

SpecSort == SortInit /\ [][SortNext]_vars

-----------------------------------------------------------------------------
(* SpecPage: one run of the page for result lists of every length up to    *)
(* PageRecords and every page number up to MaxPage                         *)

PageInit ==
    /\ data \in {UiData(n) : n \in 1..PageRecords}
    /\ search_query = <<"a">>
    /\ search_bar = search_query
    /\ current_page \in 1..MaxPage
    /\ year_range = <<min_year(data), max_year(data)>>
    /\ selected_pub_types = pub_types(data)
    /\ selected_countries = countries(data)
    /\ sort_option = "Relevance"
    /\ NothingRendered
    /\ HighlightIdle
    /\ pc = "rerun"

PageNext == Rerun

SpecPage == PageInit /\ [][PageNext]_vars

-----------------------------------------------------------------------------
(* SpecHighlight: highlight_text applied to every text and query of the bounds *)

Texts == StringsUpTo(Chars, MaxTextLen)

HighlightInit ==
    /\ data = << >>
    /\ search_query \in Queries
    /\ search_bar = search_query
    /\ current_page = 1
    /\ year_range = <<1900, 2024>>
    /\ selected_pub_types = {}
    /\ selected_countries = {}
    /\ sort_option = "Relevance"
    /\ NothingRendered
    /\ text \in Texts
    /\ marked = Returned(<< >>)
    /\ pc = "call"

\* highlight_text(text, search_query), as the result cards call it
Highlight ==
    /\ pc = "call"
    /\ marked' = highlight_text(text, search_bar)
    /\ pc' = "done"
    /\ UNCHANGED <<data, search_query, search_bar, current_page, year_range,
                   selected_pub_types, selected_countries, sort_option, results,
                   view, paginated_results, total_pages, csv, text, rendered_query>>

HighlightNext == Highlight

SpecHighlight == HighlightInit /\ [][HighlightNext]_vars

-----------------------------------------------------------------------------
(* Claims about perform_search, checked under SpecSearch *)

\* a script run has ended (with a rendered page or with an exception)
RunEnded == pc = "idle" /\ view # "none"

\* sub is a literal substring of s
Contains(s, sub) ==
    \E i \in 1..(Len(s) - Len(sub) + 1) :
        SubSeq(s, i, i + Len(sub) - 1) = sub

\* the reference scan: lower-cased query is a literal substring of a lower-cased
\* searched field
LiteralMatch(r, q) ==
    \/ Contains(Lower(r.Title), Lower(q))
    \/ Contains(Lower(r.Authors), Lower(q))
    \/ Contains(Lower(r.Keywords), Lower(q))
    \/ Contains(Lower(r.Abstract), Lower(q))

ReferenceScan ==
    SelectSeq(data, LAMBDA r :
        /\ PassesFilters(r, year_range, selected_pub_types, selected_countries)
        /\ LiteralMatch(r, search_query))

\* C1: for a non-empty query the result of perform_search is exactly the records
\* that pass the year, type and country filters and hold the lower-cased query as
\* a literal substring of a lower-cased Title, Authors, Keywords or Abstract.
C1_SearchIsLiteralSubstringScan ==
    (RunEnded /\ search_query # << >> /\ view # "error") => results = ReferenceScan

\* C2: with an empty query perform_search returns nothing whatever the sidebar
\* says: the page shows the 'enter a query' info, no record and no download.
C2_EmptyQueryShowsNothing ==
    (RunEnded /\ search_query = << >>) =>
        /\ perform_search(data, search_query, year_range, selected_pub_types,
                          selected_countries) = Returned(<< >>)
        /\ view = "info"
        /\ results = << >>
        /\ paginated_results = << >>
        /\ csv = << >>

\* C2 witness: a run with an empty query ended while the sidebar lets rows through.
C2_Witness ==
    /\ RunEnded
    /\ search_query = << >>
    /\ \E i \in 1..Len(data) :
           PassesFilters(data[i], year_range, selected_pub_types, selected_countries)
    /\ view = "info"

\* C9: whatever the query, perform_search returns and the page ends in one of
\* its three rendered states, never in an unhandled error.
C9_NoQueryIsFatal ==
    RunEnded => view \in {"results", "warning", "info"}

-----------------------------------------------------------------------------
(* Claim about sorting, checked under SpecSort *)

Reverse(s) == [i \in 1..Len(s) |-> s[Len(s) + 1 - i]]

SortKey(r, option) == IF option = "Title (A-Z)" THEN r.Title ELSE r.PublicationYear

\* C4: sorting is stable: rows with equal sort keys keep their input order in
\* every year or title sort, newest-first and oldest-first are exact reverses of
\* each other when no two rows share a year, and Relevance keeps the input order.
C4_SortIsStable ==
    (RunEnded /\ view = "results") =>
        LET found == perform_search(data, search_query, year_range,
                                    selected_pub_types, selected_countries).value
            n == Len(results)
        IN /\ SeqRange(results) = SeqRange(found) /\ n = Len(found)
           /\ sort_option = "Relevance" => results = found
           /\ sort_option # "Relevance" =>
                 \A i, j \in 1..n : i < j =>
                     /\ KeyLeq(results[i], results[j], sort_option)
                     /\ SortKey(results[i], sort_option) = SortKey(results[j], sort_option)
                            => results[i].idx < results[j].idx
           /\ (/\ sort_option = "Year (Newest First)"
               /\ Cardinality(YearsOf(found)) = n) =>
                 \A oldest \in sort_values(found, "Year (Oldest First)") :
                     results = Reverse(oldest)

-----------------------------------------------------------------------------
(* Claim about pagination, checked under SpecPage *)

\* ceil(n / results_per_page) for n >= 1
CeilPages(n) ==
    CHOOSE t \in 1..n : t * results_per_page >= n /\ (t - 1) * results_per_page < n

\* C5: the displayed slice is the elements at positions (p-1)*10 up to
\* min(p*10, n) in order, totalPages is ceil(n/10) and at least 1, and a page
\* beyond totalPages is an empty slice.
C5_PaginationArithmetic ==
    (RunEnded /\ view = "results") =>
        LET n == Len(results)
            first == (current_page - 1) * results_per_page
            last == IF current_page * results_per_page < n
                    THEN current_page * results_per_page ELSE n
        IN /\ Len(paginated_results) = (IF last > first THEN last - first ELSE 0)
           /\ \A k \in 1..Len(paginated_results) : paginated_results[k] = results[first + k]
           /\ total_pages = CeilPages(n)
           /\ total_pages >= 1
           /\ current_page > total_pages => paginated_results = << >>

\* C5 witness: 25 results on page 3: three pages, five rows shown.
C5_Witness ==
    /\ RunEnded
    /\ Len(results) = 25
    /\ current_page = 3
    /\ total_pages = 3
    /\ Len(paginated_results) = 5

-----------------------------------------------------------------------------
(* Claims about the session, checked under Spec *)

ResetIndex(frame) == [i \in 1..Len(frame) |-> [frame[i] EXCEPT !.idx = i]]

Unindexed(r) == [r EXCEPT !.idx = 0]

C3_PageResetOnQueryChange ==
    [][/\ search_bar' # search_query =>
              /\ search_query' = search_bar'
              /\ current_page' = 1
              /\ pc' = "rerun"
              /\ UNCHANGED <<view, results, paginated_results, rendered_query>>
       /\ rendered_query' # rendered_query =>
              /\ current_page' = 1
              /\ view' = "results" => paginated_results' = PageSlice(results', 1)]_vars

\* C3 witness: the second page of one query is on screen, another query has
\* been typed, and the page is back at 1 before the new query is rendered.
C3_Witness ==
    /\ pc = "rerun"
    /\ search_query # rendered_query
    /\ view = "results"
    /\ total_pages = 2
    /\ paginated_results = PageSlice(results, 2)
    /\ current_page = 1

\* C10: whenever results are on screen the current page is between 1 and
\* totalPages, so a non-empty result set never renders as an empty slice.
C10_PageStaysInRange ==
    (RunEnded /\ view = "results") =>
        /\ 1 <= current_page
        /\ current_page <= total_pages
        /\ paginated_results # << >>

-----------------------------------------------------------------------------
(* Claims about highlight_text, checked under SpecHighlight *)

IsMarker(c) == c \in {MarkOpen, MarkClose}

\* the marked text with its markers removed
StripMarks(m) == SelectSeq(m, LAMBDA c : ~IsMarker(c))

\* the position in the original text of the character that follows m[k]
TextPos(m, k) == Cardinality({h \in 1..k : ~IsMarker(m[h])}) + 1

\* the positions of the text at which a wrapped segment of length n starts:
\* an opening marker, n text characters, a closing marker
WrappedStarts(m, n) ==
    {TextPos(m, k) : k \in {h \in 1..Len(m) :
        /\ m[h] = MarkOpen
        /\ h + n + 1 <= Len(m)
        /\ m[h + n + 1] = MarkClose
        /\ \A g \in (h + 1)..(h + n) : ~IsMarker(m[g])}}

\* the positions at which query occurs in txt, compared case-insensitively
Occurrences(txt, query) ==
    {i \in 1..(Len(txt) - Len(query) + 1) :
        Lower(SubSeq(txt, i, i + Len(query) - 1)) = Lower(query)}

MarkerCount(m) == Cardinality({h \in 1..Len(m) : IsMarker(m[h])})

HighlightDone == pc = "done"

\* C7 (as stated): every case-insensitive occurrence of the literal query is
\* wrapped in a marker, the matched characters keep their casing, nothing else
\* changes (removing the markers gives back the text), and an empty query
\* returns the text unchanged.
C7_EveryOccurrenceWrapped ==
    HighlightDone =>
        /\ ~marked.raised
        /\ StripMarks(marked.value) = text
        /\ search_bar = << >> => marked.value = text
        /\ search_bar # << >> =>
              Occurrences(text, search_bar)
                  \subseteq WrappedStarts(marked.value, Len(search_bar))

\* C7 (amended): the occurrences wrapped are those a left-to-right scan finds
\* without overlap: every wrapped segment is an occurrence, every occurrence is
\* wrapped or overlaps a wrapped occurrence that starts before it, there are no
\* other markers, and removing the markers gives back the text; an empty query
\* returns the text unchanged.
C7_NonOverlappingOccurrencesWrapped ==
    HighlightDone =>
        LET n == Len(search_bar)
            occ == Occurrences(text, search_bar)
            wrapped == WrappedStarts(marked.value, n)
        IN /\ ~marked.raised
           /\ StripMarks(marked.value) = text
           /\ search_bar = << >> => marked.value = text
           /\ search_bar # << >> =>
                 /\ wrapped \subseteq occ
                 /\ MarkerCount(marked.value) = 2 * Cardinality(wrapped)
                 /\ \A i \in occ :
                       \/ i \in wrapped
                       \/ \E s \in wrapped : s < i /\ i < s + n

\* C7 witness: the query occurs twice, overlapping, the first time in another
\* casing; the first occurrence is wrapped with its casing kept.
C7_Witness ==
    /\ HighlightDone
    /\ text = <<"a", "A", "a">>
    /\ search_bar = <<"a", "a">>
    /\ marked = Returned(<<MarkOpen, "a", "A", MarkClose, "a">>)

\* the query cannot be compiled as a search pattern
InvalidAsPattern(q) == ReCompile(q) = ReError

\* C8 (as stated): for a query that is invalid as a search pattern
\* highlight_text never raises and returns the text unmodified, for every text.
C8_InvalidPatternLeavesTextUnmodified ==
    (HighlightDone /\ InvalidAsPattern(search_bar)) =>
        /\ ~marked.raised
        /\ marked.value = text

\* C8 (amended): for a query that is invalid as a search pattern highlight_text
\* never raises; it returns the text unmodified exactly when the query does not
\* occur literally (case-insensitively) in the text, and otherwise wraps the
\* literal occurrences and changes nothing else.
C8_InvalidPatternNeverRaises ==
    (HighlightDone /\ InvalidAsPattern(search_bar)) =>
        /\ ~marked.raised
        /\ (marked.value = text) <=> (Occurrences(text, search_bar) = {})
        /\ StripMarks(marked.value) = text

\* C8 witness: the query "(" was highlighted in a text that holds it.
C8_Witness ==
    /\ HighlightDone
    /\ search_bar = <<"(">>
    /\ text = <<"a", "(">>
    /\ marked = Returned(<<"a", MarkOpen, "(", MarkClose>>)

====
